---- MODULE Spec2Model ----
(***************************************************************************)
(* VidNexus (YSA.py): the transcript chunker chunk_text, the leaf/merge    *)
(* summarisation loop of summarize_using_agent, and the "Summarize Video"  *)
(* button handler that runs them.                                          *)
(*                                                                         *)
(* A text is a sequence of one-character strings.  A model output is an    *)
(* uninterpreted token: the number of the invocation that produced it.     *)
(***************************************************************************)
EXTENDS Integers, Sequences, FiniteSets, TLC

VARIABLES
    transcript,        \* value returned by fetch_transcript_yt_dlp (a text or None)
    text,              \* chunk_text: parameter text
    max_words,         \* chunk_text: parameter max_words
    chunks,            \* list returned by chunk_text / parameter of summarize_using_agent
    summaries,         \* summarize_using_agent: local summaries
    merged_summaries,  \* summarize_using_agent: local merged_summaries
    i,                 \* loop index of the running for loop
    passes,            \* number of iterations of the while loop started so far
    log,               \* every youtube_agent.run invocation made, in order
    summary,           \* value returned by summarize_using_agent (NoValue before)
    outcome,           \* what the handler showed: "none", "stopped", "exception", "success"
    pc                 \* position in the handler / in the function under test

vars == <<transcript, text, max_words, chunks, summaries, merged_summaries,
          i, passes, log, summary, outcome, pc>>

---------------------------------------------------------------------------
(* Bounds *)

\* longest text handed to chunk_text on its own
MaxLen == 6
\* largest max_words handed to chunk_text on its own
MaxWords == 3
\* most sentences in a fetched transcript
MaxBlocks == 3
\* iterations of the merge while loop that are explored
MaxPasses == 3

---------------------------------------------------------------------------
(* Text helpers *)

\* characters of the texts handed to chunk_text on its own
Alphabet == {"a", " ", ".", "?"}

\* the character class [.!?] of the split pattern
Terminal == {".", "!", "?"}

None == <<"<None>">>
NoValue == <<-1>>

Min(S) == CHOOSE x \in S : \A y \in S : x <= y

\* len(s.split()): the number of maximal runs of non-blank characters
WordCount(s) ==
    Cardinality({k \in 1..Len(s) : s[k] # " " /\ (k = 1 \/ s[k-1] = " ")})

\* re.split(r'(?<=[.!?]) +', t): cut at every run of blanks that follows a
\* terminal character; the run is dropped, the pieces are kept in order
RECURSIVE SplitSentences(_)
SplitSentences(t) ==
    LET starts == {p \in 2..Len(t) : t[p-1] \in Terminal /\ t[p] = " "}
    IN  IF starts = {} THEN <<t>>
        ELSE LET p    == Min(starts)
                 rest == {q \in (p+1)..Len(t) : t[q] # " "}
                 q    == IF rest = {} THEN Len(t) + 1 ELSE Min(rest)
             IN  <<SubSeq(t, 1, p-1)>> \o SplitSentences(SubSeq(t, q, Len(t)))

\* " ".join(ss)
RECURSIVE Join(_)
Join(ss) ==
    IF ss = <<>> THEN <<>>
    ELSE IF Len(ss) = 1 THEN ss[1]
    ELSE ss[1] \o <<" ">> \o Join(Tail(ss))

---------------------------------------------------------------------------
(* chunk_text *)

\* a variant of the loop body that opens the new chunk empty
ChunkStep_DropSentence(st, s, m) ==
    LET s_len == WordCount(s)
    IN  IF st.cur_len + s_len > m /\ st.cur # <<>>
        THEN [chunks |-> Append(st.chunks, Join(st.cur)), cur |-> <<>>, cur_len |-> 0]
        ELSE [chunks |-> st.chunks, cur |-> Append(st.cur, s), cur_len |-> st.cur_len + s_len]

\* a variant of the loop body that closes the chunk one sentence late
ChunkStep_CloseLate(st, s, m) ==
    LET s_len == WordCount(s)
    IN  IF st.cur_len > m /\ st.cur # <<>>
        THEN [chunks |-> Append(st.chunks, Join(st.cur)), cur |-> <<s>>, cur_len |-> s_len]
        ELSE [chunks |-> st.chunks, cur |-> Append(st.cur, s), cur_len |-> st.cur_len + s_len]

\* one iteration of "for s in sentences" on the locals chunks, cur, cur_len
ChunkStep(st, s, m) ==
    LET s_len == WordCount(s)
    IN  IF st.cur_len + s_len > m /\ st.cur # <<>>
        THEN [chunks |-> Append(st.chunks, Join(st.cur)), cur |-> <<s>>, cur_len |-> s_len]
        ELSE [chunks |-> st.chunks, cur |-> Append(st.cur, s), cur_len |-> st.cur_len + s_len]

RECURSIVE ChunkLoop(_, _, _)
ChunkLoop(st, sentences, m) ==
    IF sentences = <<>> THEN st
    ELSE ChunkLoop(ChunkStep(st, Head(sentences), m), Tail(sentences), m)

chunk_text(t, m) ==
    LET st == ChunkLoop([chunks |-> <<>>, cur |-> <<>>, cur_len |-> 0],
                        SplitSentences(t), m)
    IN  IF st.cur # <<>> THEN Append(st.chunks, Join(st.cur)) ELSE st.chunks

---------------------------------------------------------------------------
(* chunk_text called on its own *)

RECURSIVE TextsOfLen(_)
TextsOfLen(n) ==
    IF n = 0 THEN {<<>>}
    ELSE {Append(t, c) : t \in TextsOfLen(n-1), c \in Alphabet}

Texts == UNION {TextsOfLen(n) : n \in 0..MaxLen}

InitChunk ==
    /\ text \in Texts
    /\ max_words \in 0..MaxWords
    /\ transcript = None
    /\ chunks = <<>>
    /\ summaries = <<>>
    /\ merged_summaries = <<>>
    /\ i = 0
    /\ passes = 0
    /\ log = <<>>
    /\ summary = NoValue
    /\ outcome = "none"
    /\ pc = "call"

ChunkTextCall ==
    /\ pc = "call"
    /\ chunks' = chunk_text(text, max_words)
    /\ pc' = "returned"
    /\ UNCHANGED <<transcript, text, max_words, summaries, merged_summaries,
                   i, passes, log, summary, outcome>>

NextChunk == ChunkTextCall

SpecChunk == InitChunk /\ [][NextChunk]_vars

---------------------------------------------------------------------------
(* summarize_using_agent and the "Summarize Video" handler *)

\* max_words passed by the handler
PipelineMaxWords == 150

\* the local batch_size of summarize_using_agent
batch_size == 1

\* a sentence of k words: "a a ... a."
Words(k) == [j \in 1..(2*k) |-> IF j = 2*k THEN "." ELSE IF j % 2 = 1 THEN "a" ELSE " "]

\* sentences a fetched transcript is made of: short, half a chunk, more than a chunk
Blocks == {Words(1), Words(PipelineMaxWords \div 2), Words(PipelineMaxWords + 1)}

RECURSIVE BlockSeqs(_)
BlockSeqs(n) ==
    IF n = 0 THEN {<<>>}
    ELSE {Append(bs, b) : bs \in BlockSeqs(n-1), b \in Blocks}

\* what fetch_transcript_yt_dlp can return: None, or text with markup removed,
\* blanks collapsed and stripped (possibly empty)
Transcripts ==
    {None} \cup {Join(bs) : bs \in UNION {BlockSeqs(n) : n \in 0..MaxBlocks}}

\* "not transcript", restricted to None
Falsy_NoneOnly(t) == t = None

\* "not transcript"
Falsy(t) == t = None \/ t = <<>>

\* "len(summaries) > 1", off by one
LoopCond_AtLeastOne(ss) == Len(ss) >= 1

\* "len(summaries) > 1"
LoopCond(ss) == Len(ss) > 1

\* a slice that runs one element into the next group
Batch_Overlap(ss, k) ==
    SubSeq(ss, k + 1, IF k + batch_size + 1 < Len(ss) THEN k + batch_size + 1 ELSE Len(ss))

\* summaries[i:i+batch_size], i counted from 0
Batch(ss, k) ==
    SubSeq(ss, k + 1, IF k + batch_size < Len(ss) THEN k + batch_size ELSE Len(ss))

\* one youtube_agent.run invocation: its stage, the while iteration it belongs to
\* (0 for the leaf loop), what it was given, whether it returned, and its output
Call(stage, arg, ok) ==
    [stage |-> stage, pass |-> IF stage = "leaf" THEN 0 ELSE passes,
     arg |-> arg, ok |-> ok, out |-> IF ok THEN Len(log) + 1 ELSE 0]

Init ==
    /\ transcript \in Transcripts
    /\ text = <<>>
    /\ max_words = 0
    /\ chunks = <<>>
    /\ summaries = <<>>
    /\ merged_summaries = <<>>
    /\ i = 0
    /\ passes = 0
    /\ log = <<>>
    /\ summary = NoValue
    /\ outcome = "none"
    /\ pc = "fetched"

\* if not transcript: st.error(...); st.stop()
TranscriptUnavailable ==
    /\ pc = "fetched"
    /\ Falsy(transcript)
    /\ outcome' = "stopped"
    /\ pc' = "done"
    /\ UNCHANGED <<transcript, text, max_words, chunks, summaries, merged_summaries,
                   i, passes, log, summary>>

\* chunks = chunk_text(transcript, max_words=150); entry to summarize_using_agent
ChunkTranscript ==
    /\ pc = "fetched"
    /\ ~Falsy(transcript)
    /\ text' = transcript
    /\ max_words' = PipelineMaxWords
    /\ chunks' = chunk_text(transcript, PipelineMaxWords)
    /\ summaries' = <<>>
    /\ i' = 1
    /\ pc' = "leaf"
    /\ UNCHANGED <<transcript, merged_summaries, passes, log, summary, outcome>>

\* Step 1, one iteration: the model returns
LeafCall ==
    /\ pc = "leaf"
    /\ i <= Len(chunks)
    /\ log' = Append(log, Call("leaf", <<i>>, TRUE))
    /\ summaries' = Append(summaries, Len(log) + 1)
    /\ i' = i + 1
    /\ UNCHANGED <<transcript, text, max_words, chunks, merged_summaries, passes,
                   summary, outcome, pc>>

\* a leaf loop that logs the failure and goes on to the next chunk
LeafRaise_Swallowed ==
    /\ pc = "leaf"
    /\ i <= Len(chunks)
    /\ log' = Append(log, Call("leaf", <<i>>, FALSE))
    /\ i' = i + 1
    /\ UNCHANGED <<transcript, text, max_words, chunks, summaries, merged_summaries,
                   passes, summary, outcome, pc>>

\* Step 1, one iteration: the model raises; the handler's except shows the error
LeafRaise ==
    /\ pc = "leaf"
    /\ i <= Len(chunks)
    /\ log' = Append(log, Call("leaf", <<i>>, FALSE))
    /\ outcome' = "exception"
    /\ pc' = "done"
    /\ UNCHANGED <<transcript, text, max_words, chunks, summaries, merged_summaries,
                   i, passes, summary>>

\* Step 1: the for loop is exhausted
LeafEnd ==
    /\ pc = "leaf"
    /\ i > Len(chunks)
    /\ pc' = "while"
    /\ UNCHANGED <<transcript, text, max_words, chunks, summaries, merged_summaries,
                   i, passes, log, summary, outcome>>

\* Step 2: the while condition holds; merged_summaries = [] and the for loop starts
WhileEnter ==
    /\ pc = "while"
    /\ LoopCond(summaries)
    /\ passes < MaxPasses
    /\ merged_summaries' = <<>>
    /\ i' = 0
    /\ passes' = passes + 1
    /\ pc' = "merge"
    /\ UNCHANGED <<transcript, text, max_words, chunks, summaries, log, summary, outcome>>

\* Step 2, one iteration of the for loop: the model returns
MergeCall ==
    /\ pc = "merge"
    /\ i < Len(summaries)
    /\ log' = Append(log, Call("merge", Batch(summaries, i), TRUE))
    /\ merged_summaries' = Append(merged_summaries, Len(log) + 1)
    /\ i' = i + batch_size
    /\ UNCHANGED <<transcript, text, max_words, chunks, summaries, passes,
                   summary, outcome, pc>>

\* Step 2, one iteration of the for loop: the model raises
MergeRaise ==
    /\ pc = "merge"
    /\ i < Len(summaries)
    /\ log' = Append(log, Call("merge", Batch(summaries, i), FALSE))
    /\ outcome' = "exception"
    /\ pc' = "done"
    /\ UNCHANGED <<transcript, text, max_words, chunks, summaries, merged_summaries,
                   i, passes, summary>>

\* Step 2: the for loop is exhausted; summaries = merged_summaries
PassEnd ==
    /\ pc = "merge"
    /\ i >= Len(summaries)
    /\ summaries' = merged_summaries
    /\ pc' = "while"
    /\ UNCHANGED <<transcript, text, max_words, chunks, merged_summaries, i, passes,
                   log, summary, outcome>>

\* return summaries[0] if summaries else ""; the handler shows the summary
ReturnSummary ==
    /\ pc = "while"
    /\ ~LoopCond(summaries)
    /\ summary' = IF summaries # <<>> THEN <<summaries[1]>> ELSE <<>>
    /\ outcome' = "success"
    /\ pc' = "done"
    /\ UNCHANGED <<transcript, text, max_words, chunks, summaries, merged_summaries,
                   i, passes, log>>

Next ==
    \/ TranscriptUnavailable
    \/ ChunkTranscript
    \/ LeafCall
    \/ LeafRaise
    \/ LeafEnd
    \/ WhileEnter
    \/ MergeCall
    \/ MergeRaise
    \/ PassEnd
    \/ ReturnSummary

Spec == Init /\ [][Next]_vars

---------------------------------------------------------------------------
(* Properties *)

\* the lists of a list, one after the other
RECURSIVE Flatten(_)
Flatten(ss) == IF ss = <<>> THEN <<>> ELSE Head(ss) \o Flatten(Tail(ss))

\* the sentences each chunk holds, chunk by chunk
ChunkSentences == [k \in DOMAIN chunks |-> SplitSentences(chunks[k])]

Ceil(n, b) == (n + b - 1) \div b

\* the invocations of the current iteration of the while loop, in order
PassCalls ==
    LET InPass(e) == e.stage = "merge" /\ e.pass = passes
    IN  SelectSeq(log, InPass)

\* C1: after n - 1 iterations of the while loop over n >= 1 leaf summaries
\* (batch_size = 1) exactly one summary is left, so the loop ends
C1_EndsAfterNMinusOnePasses ==
    (pc = "while" /\ Len(chunks) >= 1 /\ passes = Len(chunks) - 1)
        => Len(summaries) = 1

\* with batch_size = 1 a finished while iteration leaves as many summaries as
\* there are chunks: the loop makes no progress
MergeKeepsLength ==
    pc = "while" => Len(summaries) = Len(chunks)

\* C2: for max_words > 0 the sentences of the returned chunks, read chunk by
\* chunk in order, are exactly the sentences the text splits into
C2_SentencesPreserved ==
    (pc = "returned" /\ max_words > 0)
        => Flatten(ChunkSentences) = SplitSentences(text)

\* chunk_text has returned several chunks, one of them holding several sentences
C2_Witness ==
    /\ pc = "returned"
    /\ max_words > 0
    /\ Len(chunks) >= 2
    /\ \E k \in DOMAIN chunks : Len(ChunkSentences[k]) >= 2
    /\ Flatten(ChunkSentences) = SplitSentences(text)

\* C3: for max_words > 0 a returned chunk has at most max_words words unless
\* it is one single sentence that alone has more; a chunk above max_words never
\* holds two sentences
C3_ChunkWithinLimit ==
    (pc = "returned" /\ max_words > 0)
        => \A k \in DOMAIN chunks :
              \/ WordCount(chunks[k]) <= max_words
              \/ /\ Len(ChunkSentences[k]) = 1
                 /\ WordCount(ChunkSentences[k][1]) > max_words

\* chunk_text has returned a chunk above max_words next to other chunks
C3_Witness ==
    /\ pc = "returned"
    /\ max_words > 0
    /\ Len(chunks) >= 2
    /\ \E k \in DOMAIN chunks : WordCount(chunks[k]) > max_words
    /\ \E k \in DOMAIN chunks : WordCount(chunks[k]) <= max_words

\* C4: a run whose transcript is empty (or whose chunk list is empty) ends in
\* the error outcome, invokes the model never and returns no summary
C4_EmptyContentIsError ==
    (transcript = None \/ transcript = <<>> \/ (pc \notin {"fetched"} /\ chunks = <<>>))
        => /\ log = <<>>
           /\ summary = NoValue
           /\ outcome \in {"none", "stopped"}
           /\ pc = "done" => outcome = "stopped"

\* a run on the empty transcript has ended
C4_Witness ==
    /\ transcript = <<>>
    /\ pc = "done"
    /\ outcome = "stopped"
    /\ log = <<>>

\* C5: a leaf invocation that fails ends the run: it is the last invocation
\* made, all before it were successful leaf calls, no merge call is made and no
\* summary is returned
C5_LeafFailureAborts ==
    \A k \in DOMAIN log :
        (log[k].stage = "leaf" /\ ~log[k].ok)
            => /\ k = Len(log)
               /\ \A j \in 1..(k-1) : log[j].stage = "leaf" /\ log[j].ok
               /\ pc = "done"
               /\ outcome = "exception"
               /\ summary = NoValue

\* the second leaf invocation of a run with several chunks has failed
C5_Witness ==
    /\ Len(chunks) >= 3
    /\ Len(log) = 2
    /\ log[1].ok
    /\ ~log[2].ok
    /\ pc = "done"

\* C6: chunk_text called with max_words <= 0 does not return a chunk list
C6_InvalidMaxWordsRejected ==
    max_words <= 0 => pc # "returned"

\* C7: chunk_text on an empty or all-blank text returns no chunk
C7_BlankTextNoChunks ==
    (pc = "returned" /\ \A k \in DOMAIN text : text[k] = " ")
        => Len(chunks) = 0

\* C8: when the for loop of a while iteration over n > 1 summaries is
\* exhausted, its invocations were given contiguous slices that, in order, make
\* up summaries exactly, each of batch_size elements but possibly a shorter
\* last one, one invocation per slice, and merged_summaries holds their outputs
\* in the same order: Ceil(n, batch_size) of them
C8_GroupsPartitionPass ==
    (pc = "merge" /\ i >= Len(summaries))
        => LET n == Len(summaries)
               G == PassCalls
           IN  /\ Len(G) = Ceil(n, batch_size)
               /\ Len(merged_summaries) = Ceil(n, batch_size)
               /\ Flatten([j \in DOMAIN G |-> G[j].arg]) = summaries
               /\ \A j \in DOMAIN G :
                     /\ G[j].ok
                     /\ Len(G[j].arg) >= 1
                     /\ Len(G[j].arg) <= batch_size
                     /\ j < Len(G) => Len(G[j].arg) = batch_size
                     /\ merged_summaries[j] = G[j].out

\* the for loop of a later while iteration over three summaries is exhausted
C8_Witness ==
    /\ pc = "merge"
    /\ i >= Len(summaries)
    /\ Len(summaries) = 3
    /\ passes = 2
    /\ Len(merged_summaries) = 3

\* C10: with exactly one chunk the single leaf invocation is the only one of
\* the run, and the summary returned is its output
C10_SingleChunkIdentity ==
    Len(chunks) = 1
        => /\ Len(log) <= 1
           /\ \A k \in DOMAIN log : log[k].stage = "leaf"
           /\ outcome = "success" => (Len(log) = 1 /\ summary = <<log[1].out>>)

\* a run with one chunk has returned its summary
C10_Witness ==
    /\ Len(chunks) = 1
    /\ outcome = "success"
    /\ pc = "done"
    /\ Len(log) = 1

====
